---- MODULE Spec2Model ----
(***************************************************************************)
(* The concurrent execution core of fish: the Global Interpreter Lock      *)
(* (gil_t, src/src/gil.cpp second draft, lines 60-186), its scheduler      *)
(* observers (cd_observer_t, gil_details::variable_t) and the script       *)
(* threads that call run / release / yield.                                *)
(***************************************************************************)
EXTENDS Integers, Sequences, FiniteSets, TLC

(* ------------------------------ bounds --------------------------------- *)
\* Number of script threads (gil_thread_t objects); tids are 1..NumThreads.
NumThreads == 3
\* Values of the per-thread variable and of the global are 0..MaxVal.
MaxVal == 1
\* Directories are 0..MaxDir.
MaxDir == 1
\* run() is not called once the waitqueue holds this many entries.
MaxQueue == 2
\* No ticket is taken once next_available has reached this value.
MaxTicket == 3

Threads == 1..NumThreads
Values == 0..MaxVal
Dirs == 0..MaxDir

\* The null gil_thread_ref_t.
NoThread == 0
\* An absent entry of an unordered_map keyed by tid.
NoSlot == -1
\* No value written yet (bookkeeping only).
NoVal == MaxVal + 1
\* size_t is this many bits wide.
SizeBits == 2
\* The limit of a limited buffer (0 is an unlimited one).
BufferLimit == 2
\* The longest string appended in one call.
MaxAppendLen == 2
\* append() is not called once the buffer holds this many elements.
MaxElems == 3
\* At most this many job groups are alive at a time.
MaxGroups == 2
\* The longest pipeline: a job has at most this many processes.
MaxProcs == 2
\* No job id above this is allocated.
MaxJobId == 3
\* At most this many children of fish are unreaped at a time.
MaxChildren == 1
\* The null shared_ptr<const autoclose_fd_t> (chdir_serializer_t::data_t::current{}).
NoDir == -1
\* The `ticket` of the last turn when no turn has been taken yet.
NoTicket == NoDir
\* An errno of fchdir other than EINTR, and the errno of a call that has not failed.
ENOENT == 2
NoErr == 0
\* An errno of setpgid.
EPERM == 1

\* Addresses of process memory: the variable a variable_t publishes
\* (fish_exec_tld_t::data_) and a global that is registered with no observer.
Addrs == {"data_", "global"}
\* variable_t::published_, the address of the published variable.
published_ == "data_"

\* The observers: cd_observer_t, registered by create_principal_gil, and the
\* variable_t of a fish_exec_tld_t.
cd_observer_t == "cd_observer_t"
variable_t == "variable_t"

VARIABLES
    owner,          \* impl_t::owner, the currently running thread or NoThread
    waitqueue,      \* impl_t::waitqueue, threads blocked in run()
    impl_lock,      \* holder of the owning_lock around impl_t, or NoThread
    pc,             \* where each script thread is
    mem,            \* process memory, by address
    tid_to_vals_,   \* variable_t::tid_to_vals_
    cwd,            \* the process working directory
    tid_to_pwd_,    \* cd_observer_t::tid_to_pwd_
    arrival,        \* history: threads inside run(), in the order of their push_back
    wrote,          \* history: the value each thread last wrote to the published variable
    mydir,          \* history: the directory each thread had at spawn or after its last cd
    sched_hooks,    \* history: did_schedule deliveries since the last will_unschedule (capped at 2)
    yield_ahead,    \* history: threads that were waiting when a thread called yield and have not owned since
    global_at_schedule, \* history: the value of the global each thread found when it was last scheduled
    hook_count,     \* history: [tid -> [spawn, destroy]] deliveries of did_spawn / will_destroy (capped at 2)
    observers       \* impl_t::observers, in registration order

VARIABLES
    current,        \* chdir_serializer_t::data_t::current, a directory or NoDir
    lock_count,     \* data_t::lock_count
    next_available, \* data_t::next_available
    now_serving,    \* data_t::now_serving
    cs_pc,          \* where each caller of locking_fchdir is: "idle", "waiting", "aborted"
    ticket,         \* lock_cwd's local `ticket` of each caller inside the slow path
    req,            \* the arguments of each caller's pending call: [dir, lock]
    locked,         \* fchdir_lock_t::locked of each caller's out_lock
    token_dir,      \* history: the directory each held token was granted for
    cs_aborted,     \* which assertion of the serializer failed and aborted the process, or "none"
    cs_last         \* history: the last call of locking_fchdir that returned

cs_vars == <<current, lock_count, next_available, now_serving, cs_pc, ticket, req,
             locked, token_dir, cs_aborted, cs_last>>

VARIABLES
    buffer_limit_,  \* separated_buffer_t::buffer_limit_
    contents_size_, \* separated_buffer_t::contents_size_
    elements_,      \* separated_buffer_t::elements_, a sequence of element_t
    discard,        \* separated_buffer_t::discard
    buf_last,       \* history: the last operation on the buffer and its arguments
    buf_appended    \* history: what was appended since the buffer was last emptied

buf_vars == <<buffer_limit_, contents_size_, elements_, discard, buf_last, buf_appended>>

VARIABLES
    fillthread_waiter_,  \* io_buffer_t::fillthread_waiter_: "invalid", "pending" or "ready"
    shutdown_fillthread_,\* io_buffer_t::shutdown_fillthread_
    fill_pc,             \* the fillthread: "none", "running" or "exited"
    main_pc,             \* the main thread: "idle", or "waiting" inside complete_background_fillthread
    io_aborted,          \* buffer()'s assertion has failed and the process aborted
    fill_step            \* history: the last operation on the io_buffer_t

fill_vars == <<fillthread_waiter_, shutdown_fillthread_, fill_pc, main_pc, io_aborted, fill_step>>

VARIABLES
    consumed_job_ids,    \* the sorted vector of job ids in use
    groups,              \* the job_group_t objects that are alive
    children,            \* the pids of fish's children that have not been reaped
    concurrent,          \* feature_test(features_t::concurrent)
    jg_aborted,          \* an assertion of the job group code has failed
    jg_last              \* history: the pid the last operation called waitpid on, or NoPgid

jg_vars == <<consumed_job_ids, groups, children, concurrent, jg_aborted, jg_last>>

\* Everything but the scheduler's own state and the process working directory.
nongil_vars == <<cs_vars, buf_vars, fill_vars, jg_vars>>

vars == <<owner, waitqueue, impl_lock, pc, mem, tid_to_vals_, cwd, tid_to_pwd_,
          arrival, wrote, mydir, sched_hooks, yield_ahead, global_at_schedule, hook_count,
          observers, nongil_vars>>

\* The scheduler's state without the process working directory.
gil_vars == <<owner, waitqueue, impl_lock, pc, mem, tid_to_vals_, tid_to_pwd_,
              arrival, wrote, mydir, sched_hooks, yield_ahead, global_at_schedule, hook_count,
              observers>>

Range(s) == {s[i] : i \in 1..Len(s)}

RECURSIVE RemoveFirst(_, _)
RemoveFirst(s, x) ==
    IF s = <<>> THEN <<>>
    ELSE IF Head(s) = x THEN Tail(s)
    ELSE <<Head(s)>> \o RemoveFirst(Tail(s), x)

Cap2(n) == IF n >= 2 THEN 2 ELSE n

(* ------------------------- gil_details::variable_t --------------------- *)
\* A did_spawn that emplaces a value-initialised T instead of a copy.
variable_did_spawn_default(vals, m, tid) ==
    [vals |-> [vals EXCEPT ![tid] = IF @ = NoSlot THEN 0 ELSE @], mem |-> m]

\* did_spawn: emplace a copy of the published value under tid; emplace
\* leaves an entry that is already there as it is.
variable_did_spawn(vals, m, tid) ==
    [vals |-> [vals EXCEPT ![tid] = IF @ = NoSlot THEN m[published_] ELSE @], mem |-> m]

\* did_spawn's assertion: the emplace inserted.
variable_did_spawn_ok(vals, tid) == vals[tid] = NoSlot

\* A will_destroy that erases nothing.
variable_will_destroy_keeping(vals, m, tid) == [vals |-> vals, mem |-> m]

\* will_destroy: erase tid's slot.
variable_will_destroy(vals, m, tid) ==
    [vals |-> [vals EXCEPT ![tid] = NoSlot], mem |-> m]

\* will_destroy's assertion: erased == 1.
variable_will_destroy_ok(vals, tid) == vals[tid] # NoSlot

\* The assertion of will_unschedule and of did_schedule: find(tid) found a slot.
variable_will_unschedule_ok(vals, tid) == vals[tid] # NoSlot
variable_did_schedule_ok(vals, tid) == vals[tid] # NoSlot

\* will_unschedule: std::swap(iter->second, *published_).
variable_will_unschedule(vals, m, tid) ==
    [vals |-> [vals EXCEPT ![tid] = m[published_]],
     mem |-> [m EXCEPT ![published_] = vals[tid]]]

\* A did_schedule that swaps with the wrong address.
variable_did_schedule_wrong_addr(vals, m, tid) ==
    [vals |-> [vals EXCEPT ![tid] = m["global"]],
     mem |-> [m EXCEPT !["global"] = vals[tid]]]

\* did_schedule: std::swap(iter->second, *published_).
variable_did_schedule(vals, m, tid) ==
    [vals |-> [vals EXCEPT ![tid] = m[published_]],
     mem |-> [m EXCEPT ![published_] = vals[tid]]]

\* variable_t::will_schedule of the earlier interface (gil.h): both assertions
\* test olditer, so a missing slot of newtid is not caught.
variable_will_schedule_ok(vals, oldtid, newtid) ==
    vals[oldtid] # NoSlot /\ vals[oldtid] # NoSlot

\* olditer->second = std::move(*published_); *published_ = std::move(newiter->second).
\* Dereferencing newiter == end() is undefined: garbage is what is read then.
variable_will_schedule(vals, m, oldtid, newtid, garbage) ==
    [vals |-> [vals EXCEPT ![oldtid] = m[published_]],
     mem |-> [m EXCEPT ![published_] =
                 IF vals[newtid] # NoSlot THEN vals[newtid] ELSE garbage]]

(* ------------------------------ cd_observer_t -------------------------- *)
\* getcwd of the process (assumed to succeed).
get_current_directory(dir) == dir

cd_did_spawn(pwd, dir, tid) ==
    [pwd |-> [pwd EXCEPT ![tid] = get_current_directory(dir)], cwd |-> dir]

cd_will_destroy(pwd, dir, tid) ==
    [pwd |-> [pwd EXCEPT ![tid] = NoSlot], cwd |-> dir]

\* did_spawn and will_destroy of cd_observer_t assert nothing.
cd_did_spawn_ok(pwd, tid) == TRUE
cd_will_destroy_ok(pwd, tid) == TRUE

\* The assertion of will_unschedule and of did_schedule: find(tid) found a slot.
cd_will_unschedule_ok(pwd, tid) == pwd[tid] # NoSlot
cd_did_schedule_ok(pwd, tid) == pwd[tid] # NoSlot

\* will_unschedule: save the cwd.
cd_will_unschedule(pwd, dir, tid) ==
    [pwd |-> [pwd EXCEPT ![tid] = get_current_directory(dir)], cwd |-> dir]

\* did_schedule: chdir to the saved directory (assumed to succeed).
cd_did_schedule(pwd, dir, tid) ==
    [pwd |-> pwd, cwd |-> pwd[tid]]

\* cd_observer_t::will_schedule of the earlier draft: only newtid is looked up.
cd_will_schedule_ok(pwd, oldtid, newtid) == pwd[newtid] # NoSlot

cd_will_schedule(pwd, dir, oldtid, newtid) == [pwd |-> pwd, cwd |-> pwd[newtid]]

(* --------------------------------- gil_t ------------------------------- *)
\* is_scheduled: thread && thread == impl->owner.
is_scheduled(thread) == thread # NoThread /\ thread = owner

\* A schedule_if_needed that does not look at the current owner.
schedule_if_needed_ignoring_owner(o, wq) ==
    IF wq = <<>> THEN [owner |-> o, waitqueue |-> wq]
    ELSE [owner |-> Head(wq), waitqueue |-> Tail(wq)]

\* schedule_if_needed: do nothing if a thread is scheduled or nothing waits;
\* else the front of the waitqueue becomes the owner and is notified.
schedule_if_needed(o, wq) ==
    IF o # NoThread \/ wq = <<>> THEN [owner |-> o, waitqueue |-> wq]
    ELSE [owner |-> Head(wq), waitqueue |-> Tail(wq)]

\* A release whose assertion lets every thread through.
release_ok_any_thread(o, old_thread) == TRUE

\* release's assertion: old_thread == impl->owner.
release_ok(o, old_thread) == old_thread = o

\* What release does to impl_t: it asserts old_thread == impl->owner and returns.
release(o, wq, old_thread) ==
    [owner |-> o, waitqueue |-> wq]

(* --------------------------- separated_buffer_t ------------------------ *)
\* size_t arithmetic wraps at 2^SizeBits.
SizeMod == 2 ^ SizeBits
SizeMax == SizeMod - 1

\* The bytes of the strings, and the newline newline_serialized adds.
Bytes == {"a", "b"}
Newline == "\n"

\* separation_type_t.
inferred == "inferred"
explicitly == "explicitly"
separation_type_t == {inferred, explicitly}

\* The strings append() is called with.
RECURSIVE StringsUpTo(_)
StringsUpTo(n) ==
    IF n = 0 THEN {<<>>}
    ELSE LET shorter == StringsUpTo(n - 1) IN
         shorter \cup {Append(str, c) : str \in {x \in shorter : Len(x) = n - 1}, c \in Bytes}
Strings == StringsUpTo(MaxAppendLen)

\* element_t::is_explicitly_separated.
is_explicitly_separated(elem) == elem.separation = explicitly

\* The separated_buffer_t as a record.
Buf == [buffer_limit_ |-> buffer_limit_, contents_size_ |-> contents_size_,
        elements_ |-> elements_, discard |-> discard]

\* The constructor: separated_buffer_t(limit).
separated_buffer_t(limit) ==
    [buffer_limit_ |-> limit, contents_size_ |-> 0, elements_ |-> <<>>, discard |-> FALSE]

\* A set_discard that forgets to zero contents_size_.
set_discard_keeping_size(buf) ==
    [buf EXCEPT !.elements_ = <<>>, !.discard = TRUE]

\* set_discard: drop everything and mark the buffer as discarding.
set_discard(buf) ==
    [buf EXCEPT !.elements_ = <<>>, !.contents_size_ = 0, !.discard = TRUE]

\* reset_discard.
reset_discard(buf) == [buf EXCEPT !.discard = FALSE]

\* A try_add_size that does not look at the discard flag.
try_add_size_ignoring_discard(buf, delta) ==
    LET b1 == [buf EXCEPT !.contents_size_ = (@ + delta) % SizeMod] IN
    IF b1.contents_size_ < delta
    THEN [buf |-> set_discard(b1), ok |-> FALSE]
    ELSE IF b1.buffer_limit_ > 0 /\ b1.contents_size_ > b1.buffer_limit_
         THEN [buf |-> set_discard(b1), ok |-> FALSE]
         ELSE [buf |-> b1, ok |-> TRUE]

\* A try_add_size that refuses to reach the limit exactly.
try_add_size_below_limit(buf, delta) ==
    IF buf.discard THEN [buf |-> buf, ok |-> FALSE]
    ELSE LET b1 == [buf EXCEPT !.contents_size_ = (@ + delta) % SizeMod] IN
         IF b1.contents_size_ < delta
         THEN [buf |-> set_discard(b1), ok |-> FALSE]
         ELSE IF b1.buffer_limit_ > 0 /\ b1.contents_size_ >= b1.buffer_limit_
              THEN [buf |-> set_discard(b1), ok |-> FALSE]
              ELSE [buf |-> b1, ok |-> TRUE]

\* try_add_size: the new buffer and whether delta more bytes may be stored.
try_add_size(buf, delta) ==
    IF buf.discard THEN [buf |-> buf, ok |-> FALSE]
    ELSE LET b1 == [buf EXCEPT !.contents_size_ = (@ + delta) % SizeMod] IN
         IF b1.contents_size_ < delta
         THEN [buf |-> set_discard(b1), ok |-> FALSE]
         ELSE IF b1.buffer_limit_ > 0 /\ b1.contents_size_ > b1.buffer_limit_
              THEN [buf |-> set_discard(b1), ok |-> FALSE]
              ELSE [buf |-> b1, ok |-> TRUE]

\* An append that adds an element for every call.
append_never_coalescing(buf, str, sep) ==
    LET r == try_add_size(buf, Len(str)) IN
    IF ~r.ok THEN r.buf
    ELSE [r.buf EXCEPT !.elements_ = Append(@, [contents |-> str, separation |-> sep])]

\* An append that merges an inferred string into the last element whatever
\* that element's separation.
append_merging_into_explicit(buf, str, sep) ==
    LET r == try_add_size(buf, Len(str))
        es == r.buf.elements_
        n == Len(es)
    IN  IF ~r.ok THEN r.buf
        ELSE IF sep = inferred /\ n > 0
             THEN [r.buf EXCEPT !.elements_[n].contents = @ \o str]
             ELSE [r.buf EXCEPT !.elements_ = Append(@, [contents |-> str, separation |-> sep])]

\* append(begin, end, sep): coalesce an inferred string into an inferred last
\* element, else add an element.
append(buf, str, sep) ==
    LET r == try_add_size(buf, Len(str))
        es == r.buf.elements_
        n == Len(es)
    IN  IF ~r.ok THEN r.buf
        ELSE IF sep = inferred /\ n > 0 /\ ~is_explicitly_separated(es[n])
             THEN [r.buf EXCEPT !.elements_[n].contents = @ \o str]
             ELSE [r.buf EXCEPT !.elements_ = Append(@, [contents |-> str, separation |-> sep])]

\* A serialization that ends every element with a newline.
RECURSIVE newline_serialized_every_element(_)
newline_serialized_every_element(elems) ==
    IF elems = <<>> THEN <<>>
    ELSE Head(elems).contents \o <<Newline>> \o newline_serialized_every_element(Tail(elems))

\* newline_serialized: the contents, with a newline after each explicitly
\* separated element.
RECURSIVE newline_serialized(_)
newline_serialized(elems) ==
    IF elems = <<>> THEN <<>>
    ELSE Head(elems).contents
         \o (IF is_explicitly_separated(Head(elems)) THEN <<Newline>> ELSE <<>>)
         \o newline_serialized(Tail(elems))

\* size() and discarded().
size == contents_size_
discarded == discard

BufInit ==
    /\ buffer_limit_ = 0
    /\ contents_size_ = 0
    /\ elements_ = <<>>
    /\ discard = FALSE
    /\ buf_last = [op |-> "none", str |-> <<>>, sep |-> inferred]
    /\ buf_appended = <<>>

BufTypeOK ==
    /\ buffer_limit_ \in 0..SizeMax
    /\ contents_size_ \in 0..SizeMax
    /\ Len(elements_) <= MaxElems
    /\ \A i \in 1..Len(elements_) : elements_[i].separation \in separation_type_t
    /\ discard \in BOOLEAN
    /\ buf_last.op \in {"none", "construct", "append", "set_discard", "reset_discard"}

(* ------------------------------- job_group_t --------------------------- *)
\* The job id of a group that has none, and the pgid of a group without one.
NoJobId == -1
NoPgid == NoJobId

\* getpgrp(): fish's own process group, and the pids fork can return.
FishPgid == 1
ChildPids == (FishPgid + 1)..(FishPgid + MaxChildren)

\* What a null job_group_ref_t refers to: no job_group_t.
NoGroup ==
    [live |-> FALSE, job_id |-> NoJobId, job_control |-> FALSE,
     is_internal |-> FALSE, is_foreground |-> FALSE, pgid |-> NoPgid, owns_pgid |-> FALSE]

\* The processes of a job, each internal to fish (TRUE) or external.
RECURSIVE ProcsUpTo(_)
ProcsUpTo(n) ==
    IF n = 0 THEN {<<>>}
    ELSE LET shorter == ProcsUpTo(n - 1) IN
         shorter \cup {Append(ps, i) : ps \in {x \in shorter : Len(x) = n - 1}, i \in BOOLEAN}

\* The jobs populate_group_for_job is called with.
Jobs ==
    [processes : ProcsUpTo(MaxProcs) \ {<<>>}, is_initially_background : BOOLEAN,
     wants_job_control : BOOLEAN]

\* job_t::has_internal_proc.
has_internal_proc(job) == \E i \in 1..Len(job.processes) : job.processes[i]

\* An acquire_job_id that counts the ids in use.
acquire_job_id_by_count(ids) ==
    LET jid == Len(ids) + 1 IN [jid |-> jid, ids |-> Append(ids, jid)]

\* acquire_job_id: 1, or one more than the last (largest) id in use.
acquire_job_id(ids) ==
    LET jid == IF ids = <<>> THEN 1 ELSE ids[Len(ids)] + 1
    IN  [jid |-> jid, ids |-> Append(ids, jid)]

\* release_job_id's assertions: the id is positive and in use.
release_job_id_ok(ids, jid) == jid > 0 /\ jid \in Range(ids)

\* release_job_id: erase the first occurrence of jid.
release_job_id(ids, jid) == RemoveFirst(ids, jid)

\* needs_pgid_assignment: a group that is not internal and has no pgid yet.
needs_pgid_assignment(group) == ~group.is_internal /\ group.pgid = NoPgid

\* set_pgid's assertions.
set_pgid_ok(group, pgid) == needs_pgid_assignment(group) /\ pgid >= 0

\* set_pgid.
set_pgid(group, pgid) == [group EXCEPT !.pgid = pgid]

\* job_group_t(props): a new group, with no pgid and not owning one. Of the
\* properties, wants_terminal is left out: nothing here reads it.
job_group_t(props) ==
    [live |-> TRUE, job_id |-> props.job_id, job_control |-> props.job_control,
     is_internal |-> props.is_internal,
     is_foreground |-> FALSE, pgid |-> NoPgid, owns_pgid |-> FALSE]

\* This job can use an internal group: a simple foreground execution of an
\* internal process.
can_use_internal(job) ==
    /\ ~job.is_initially_background
    /\ Len(job.processes) = 1
    /\ job.processes[1]

\* A needs_new_group that lets a background job inherit.
needs_new_group_no_background(job, proposed) ==
    \/ ~proposed.live
    \/ proposed.is_internal /\ ~can_use_internal(job)

\* needs_new_group, as populate_group_for_job decides it.
needs_new_group(job, proposed) ==
    IF ~proposed.live THEN TRUE
    ELSE IF job.is_initially_background THEN TRUE
    ELSE IF proposed.is_internal /\ ~can_use_internal(job) THEN TRUE
    ELSE FALSE

\* A fork condition that does not look at the group's pgid.
wants_owned_pgid_ignoring_pgid(feature, group, job) ==
    /\ feature
    /\ Len(job.processes) > 1
    /\ has_internal_proc(job)

\* A fork condition that wants every process to be internal.
wants_owned_pgid_all_internal(feature, group, job) ==
    /\ feature
    /\ group.pgid = NoPgid
    /\ Len(job.processes) > 1
    /\ \A i \in 1..Len(job.processes) : job.processes[i]

\* A fork condition that does not test the concurrent feature.
wants_owned_pgid_any_feature(feature, group, job) ==
    /\ group.pgid = NoPgid
    /\ Len(job.processes) > 1
    /\ has_internal_proc(job)

\* populate_group_for_job's condition for forking a pgid owner.
wants_owned_pgid(feature, group, job) ==
    /\ feature
    /\ group.pgid = NoPgid
    /\ Len(job.processes) > 1
    /\ has_internal_proc(job)

\* populate_group_for_job(job, proposed) with the concurrent feature, the job
\* ids in use and the pid a fork would return. The result: whether a group was
\* created, the job's group, the ids in use, whether a job id was acquired,
\* whether an owner was forked and whether every set_pgid assertion held.
populate_group_for_job(job, proposed, feature, ids, pid) ==
    IF ~needs_new_group(job, proposed)
    THEN [new |-> FALSE, group |-> proposed, ids |-> ids, acquired |-> FALSE,
          forked |-> FALSE, ok |-> TRUE]
    ELSE LET internal == can_use_internal(job)
             acq == IF internal THEN [jid |-> NoJobId, ids |-> ids] ELSE acquire_job_id(ids)
             props == [job_control |-> job.wants_job_control,
                       is_internal |-> internal,
                       job_id |-> acq.jid]
             g0 == [job_group_t(props) EXCEPT !.is_foreground = ~job.is_initially_background]
             in_fish == ~internal /\ (~props.job_control \/ job.processes[1])
             g1 == IF in_fish THEN set_pgid(g0, FishPgid) ELSE g0
             fork == wants_owned_pgid(feature, g1, job)
             g2 == IF fork THEN [set_pgid(g1, pid) EXCEPT !.owns_pgid = TRUE] ELSE g1
         IN  [new |-> TRUE, group |-> g2, ids |-> acq.ids, acquired |-> ~internal,
              forked |-> fork,
              ok |-> /\ in_fish => set_pgid_ok(g0, FishPgid)
                     /\ fork => set_pgid_ok(g1, pid)]

\* A destructor that calls waitpid whether or not the group owns its pgid.
job_group_dtor_always_waiting(group, kids, ids) ==
    [waited |-> TRUE,
     pid |-> group.pgid,
     children |-> kids \ {group.pgid},
     ids |-> IF group.job_id > 0 THEN release_job_id(ids, group.job_id) ELSE ids,
     ok |-> group.job_id > 0 => release_job_id_ok(ids, group.job_id)]

\* ~job_group_t with the unreaped children and the ids in use: whether waitpid
\* was called and on which pid, the children and ids left, and whether
\* release_job_id's assertions held.
job_group_dtor(group, kids, ids) ==
    [waited |-> group.owns_pgid,
     pid |-> IF group.owns_pgid THEN group.pgid ELSE NoPgid,
     children |-> IF group.owns_pgid THEN kids \ {group.pgid} ELSE kids,
     ids |-> IF group.job_id > 0 THEN release_job_id(ids, group.job_id) ELSE ids,
     ok |-> group.job_id > 0 => release_job_id_ok(ids, group.job_id)]

JgInit ==
    /\ consumed_job_ids = <<>>
    /\ groups = {}
    /\ children = {}
    /\ concurrent = FALSE
    /\ jg_aborted = FALSE
    /\ jg_last = NoPgid

JgTypeOK ==
    /\ consumed_job_ids \in Seq(1..MaxJobId)
    /\ \A g \in groups : g.live /\ g.pgid \in {NoPgid, FishPgid} \cup ChildPids
    /\ children \subseteq ChildPids
    /\ concurrent \in BOOLEAN
    /\ jg_aborted \in BOOLEAN

(* ------------------------------- io_buffer_t --------------------------- *)
\* A fillthread_running that reports the opposite.
fillthread_running_inverted == fillthread_waiter_ = "invalid"

\* fillthread_running: the future is valid.
fillthread_running == fillthread_waiter_ # "invalid"

\* The states of the fill: "idle" before it begins, "running" until the main
\* thread has waited for the fillthread's promise, then "completed".
fill_state ==
    IF fill_pc = "none" THEN "idle"
    ELSE IF fillthread_waiter_ = "invalid" THEN "completed" ELSE "running"

FillInit ==
    /\ fillthread_waiter_ = "invalid"
    /\ shutdown_fillthread_ = FALSE
    /\ fill_pc = "none"
    /\ main_pc = "idle"
    /\ io_aborted = FALSE
    /\ fill_step = "none"

FillTypeOK ==
    /\ fillthread_waiter_ \in {"invalid", "pending", "ready"}
    /\ shutdown_fillthread_ \in BOOLEAN
    /\ fill_pc \in {"none", "running", "exited"}
    /\ main_pc \in {"idle", "waiting"}
    /\ io_aborted \in BOOLEAN

(* --------------------------- chdir_serializer_t ------------------------ *)
\* The serializer's data_t as a record.
Data == [current |-> current, lock_count |-> lock_count,
         next_available |-> next_available, now_serving |-> now_serving]

\* assert(data->now_serving <= data->next_available).
tickets_monotone(data) == data.now_serving <= data.next_available

\* A try_advance_ticket that posts whenever no lock is held.
try_advance_ticket_unguarded(data) ==
    IF data.lock_count = 0
    THEN [data EXCEPT !.now_serving = @ + 1]
    ELSE data

\* try_advance_ticket: advance now_serving if no lock is held and a ticket is out.
try_advance_ticket(data) ==
    IF data.lock_count = 0 /\ data.now_serving < data.next_available
    THEN [data EXCEPT !.now_serving = @ + 1]
    ELSE data

\* A fast path that does not look at the tickets.
fast_path_ignoring_tickets(data, dir_fd) == data.current = dir_fd

\* The fast path's condition: nobody is waiting and the cwd already agrees.
fast_path(data, dir_fd) ==
    data.current = dir_fd /\ data.now_serving = data.next_available

\* A fast path that bumps the lock count whether or not a lock was asked for.
fast_turn_always_locking(data, want_lock) == [data EXCEPT !.lock_count = @ + 1]

\* lock_cwd on its fast path: lock_count += 1 if out_lock is given; return 0.
fast_turn(data, want_lock) ==
    IF want_lock THEN [data EXCEPT !.lock_count = @ + 1] ELSE data

\* A turn that returns on error before try_advance_ticket.
slow_turn_no_advance_on_error(data, dir_fd, want_lock, fres) ==
    LET err == IF data.current # dir_fd THEN fres ELSE NoErr
        d1 == IF data.current # dir_fd /\ err = NoErr
              THEN [data EXCEPT !.current = dir_fd] ELSE data
        d2 == IF err = NoErr /\ want_lock
              THEN [d1 EXCEPT !.lock_count = @ + 1] ELSE d1
    IN  [data |-> IF err = NoErr THEN try_advance_ticket(d2) ELSE d2,
         locked |-> (err = NoErr /\ want_lock),
         err |-> err,
         fchdir |-> (data.current # dir_fd)]

\* lock_cwd from "It's our turn" to its return, for a caller that passed the
\* 'Should be no locks' assertion. fres is what fchdir ends with once it no
\* longer returns EINTR: NoErr or an errno. The result is the new data_t,
\* whether out_lock is now locked, the errno (the call returns -1 if it is not
\* NoErr), and whether fchdir was called.
slow_turn(data, dir_fd, want_lock, fres) ==
    LET err == IF data.current # dir_fd THEN fres ELSE NoErr
        d1 == IF data.current # dir_fd /\ err = NoErr
              THEN [data EXCEPT !.current = dir_fd] ELSE data
        d2 == IF err = NoErr /\ want_lock
              THEN [d1 EXCEPT !.lock_count = @ + 1] ELSE d1
    IN  [data |-> try_advance_ticket(d2),
         locked |-> (err = NoErr /\ want_lock),
         err |-> err,
         fchdir |-> (data.current # dir_fd)]

\* A release_cwd_lock that does not call try_advance_ticket.
release_cwd_lock_no_advance(data) == [data EXCEPT !.lock_count = @ - 1]

\* release_cwd_lock: lock_count -= 1, then try_advance_ticket.
release_cwd_lock(data) ==
    try_advance_ticket([data EXCEPT !.lock_count = @ - 1])

\* The arguments of a caller that is not inside locking_fchdir.
NoReq == [dir |-> NoDir, lock |-> FALSE]

CsInit ==
    /\ current = NoDir
    /\ lock_count = 0
    /\ next_available = 0
    /\ now_serving = 0
    /\ cs_pc = [t \in Threads |-> "idle"]
    /\ ticket = [t \in Threads |-> 0]
    /\ req = [t \in Threads |-> NoReq]
    /\ locked = [t \in Threads |-> FALSE]
    /\ token_dir = [t \in Threads |-> NoDir]
    /\ cs_aborted = "none"
    /\ cs_last = [seq |-> 0, path |-> "none", ticket |-> NoTicket,
                  err |-> NoErr, lock |-> FALSE]

CsTypeOK ==
    /\ current \in Dirs \cup {NoDir}
    /\ lock_count \in 0..NumThreads
    /\ next_available \in 0..MaxTicket
    /\ now_serving \in 0..MaxTicket
    /\ cs_pc \in [Threads -> {"idle", "waiting", "aborted"}]
    /\ ticket \in [Threads -> 0..MaxTicket]
    /\ req \in [Threads -> [dir : Dirs \cup {NoDir}, lock : BOOLEAN]]
    /\ locked \in [Threads -> BOOLEAN]
    /\ token_dir \in [Threads -> Dirs \cup {NoDir}]
    /\ cs_aborted \in {"none", "no_locks", "monotone", "lock_count"}
    /\ cs_last.path \in {"none", "fast", "slow"}

TypeOK ==
    /\ owner \in Threads \cup {NoThread}
    /\ waitqueue \in Seq(Threads) /\ Len(waitqueue) <= MaxQueue
    /\ impl_lock \in Threads \cup {NoThread}
    /\ pc \in [Threads -> {"fresh", "ready", "yielding", "in_run", "running", "dead",
                           "aborted"}]
    /\ mem \in [Addrs -> Values]
    /\ tid_to_vals_ \in [Threads -> Values \cup {NoSlot}]
    /\ cwd \in Dirs
    /\ tid_to_pwd_ \in [Threads -> Dirs \cup {NoSlot}]
    /\ observers \in {<<cd_observer_t>>, <<cd_observer_t, variable_t>>}
    /\ CsTypeOK
    /\ BufTypeOK
    /\ FillTypeOK
    /\ JgTypeOK

\* The state after construction, but for the observers registered.
InitBut ==
    /\ owner = NoThread
    /\ waitqueue = <<>>
    /\ impl_lock = NoThread
    /\ pc = [t \in Threads |-> "fresh"]
    /\ mem = [a \in Addrs |-> 0]
    /\ tid_to_vals_ = [t \in Threads |-> NoSlot]
    /\ cwd = 0
    /\ tid_to_pwd_ = [t \in Threads |-> NoSlot]
    /\ arrival = <<>>
    /\ wrote = [t \in Threads |-> NoVal]
    /\ mydir = [t \in Threads |-> 0]
    /\ sched_hooks = 0
    /\ yield_ahead = [t \in Threads |-> {}]
    /\ global_at_schedule = [t \in Threads |-> NoVal]
    /\ hook_count = [t \in Threads |-> [spawn |-> 0, destroy |-> 0]]
    /\ CsInit
    /\ BufInit
    /\ FillInit
    /\ JgInit

\* The principal GIL once the fish_exec_tld_t has been constructed.
Init ==
    /\ InitBut
    /\ observers = <<cd_observer_t, variable_t>>

(* ------------------------- delivery to the observers ------------------- *)
\* The observers of the principal GIL are called in registration order:
\* cd_observer_t, then the variable_t if it has been registered. A hook whose
\* assertion fails aborts the process: the observers after it are not called.
registered(obs) == \E i \in 1..Len(observers) : observers[i] = obs

\* No observer's assertion fails when the hook is delivered for tid.
deliver_did_spawn_ok(tid) ==
    /\ cd_did_spawn_ok(tid_to_pwd_, tid)
    /\ registered(variable_t) => variable_did_spawn_ok(tid_to_vals_, tid)

deliver_will_destroy_ok(tid) ==
    /\ cd_will_destroy_ok(tid_to_pwd_, tid)
    /\ registered(variable_t) => variable_will_destroy_ok(tid_to_vals_, tid)

deliver_will_unschedule_ok(tid) ==
    /\ cd_will_unschedule_ok(tid_to_pwd_, tid)
    /\ registered(variable_t) => variable_will_unschedule_ok(tid_to_vals_, tid)

deliver_did_schedule_ok(tid) ==
    /\ cd_did_schedule_ok(tid_to_pwd_, tid)
    /\ registered(variable_t) => variable_did_schedule_ok(tid_to_vals_, tid)

\* What a hook leaves behind: cd_hook and variable_hook are what the two
\* observers do, cd_ok and variable_ok whether their assertions hold.
deliver(cd_hook, cd_ok, variable_hook, variable_ok) ==
    LET c == IF cd_ok THEN cd_hook ELSE [pwd |-> tid_to_pwd_, cwd |-> cwd]
        v == IF cd_ok /\ registered(variable_t) /\ variable_ok
             THEN variable_hook ELSE [vals |-> tid_to_vals_, mem |-> mem]
    IN  /\ tid_to_pwd_' = c.pwd /\ cwd' = c.cwd
        /\ tid_to_vals_' = v.vals /\ mem' = v.mem

deliver_did_spawn(tid) ==
    deliver(cd_did_spawn(tid_to_pwd_, cwd, tid), cd_did_spawn_ok(tid_to_pwd_, tid),
            variable_did_spawn(tid_to_vals_, mem, tid),
            variable_did_spawn_ok(tid_to_vals_, tid))

deliver_will_destroy(tid) ==
    deliver(cd_will_destroy(tid_to_pwd_, cwd, tid), cd_will_destroy_ok(tid_to_pwd_, tid),
            variable_will_destroy(tid_to_vals_, mem, tid),
            variable_will_destroy_ok(tid_to_vals_, tid))

deliver_will_unschedule(tid) ==
    deliver(cd_will_unschedule(tid_to_pwd_, cwd, tid), cd_will_unschedule_ok(tid_to_pwd_, tid),
            variable_will_unschedule(tid_to_vals_, mem, tid),
            variable_will_unschedule_ok(tid_to_vals_, tid))

\* for (auto &obs : impl->observers) obs->did_schedule(thread->tid);
deliver_did_schedule(tid) ==
    deliver(cd_did_schedule(tid_to_pwd_, cwd, tid), cd_did_schedule_ok(tid_to_pwd_, tid),
            variable_did_schedule(tid_to_vals_, mem, tid),
            variable_did_schedule_ok(tid_to_vals_, tid))

\* No assertion has failed in a call of a script thread.
NotAborted == \A u \in Threads : pc[u] # "aborted"

(* ------------------------------- actions ------------------------------- *)
\* The GIL is held by some script thread, or no thread exists yet (the root
\* thread is being set up).
GilHeld == (\E p \in Threads : pc[p] = "running") \/ (\A u \in Threads : pc[u] = "fresh")

\* spawn(thread): register a new script thread; did_spawn goes to every observer.
\* Threads are made in the order of their tids (gil_thread_t(): tid(++s_last_tid)).
Spawn(t) ==
    /\ pc[t] = "fresh"
    /\ NotAborted
    /\ \A u \in Threads : u < t => pc[u] # "fresh"
    /\ impl_lock = NoThread
    /\ GilHeld
    /\ deliver_did_spawn(t)
    /\ pc' = [pc EXCEPT ![t] = IF deliver_did_spawn_ok(t) THEN "ready" ELSE "aborted"]
    /\ mydir' = [mydir EXCEPT ![t] = cwd]
    /\ hook_count' = [hook_count EXCEPT ![t].spawn = Cap2(@ + 1)]
    /\ UNCHANGED <<nongil_vars, observers>>
    /\ UNCHANGED <<owner, waitqueue, impl_lock, arrival, wrote, sched_hooks,
                   yield_ahead, global_at_schedule>>

\* destroy(thread): the thread is neither owner nor enqueued; will_destroy goes
\* to every observer.
Destroy(t) ==
    /\ pc[t] = "ready"
    /\ NotAborted
    /\ t # owner
    /\ t \notin Range(waitqueue)
    /\ impl_lock = NoThread
    /\ GilHeld
    /\ deliver_will_destroy(t)
    /\ pc' = [pc EXCEPT ![t] = IF deliver_will_destroy_ok(t) THEN "dead" ELSE "aborted"]
    /\ hook_count' = [hook_count EXCEPT ![t].destroy = Cap2(@ + 1)]
    /\ UNCHANGED <<nongil_vars, observers>>
    /\ UNCHANGED <<owner, waitqueue, impl_lock, arrival, wrote, mydir, sched_hooks,
                   yield_ahead, global_at_schedule>>

\* run(thread), up to its wait loop: take the lock, push_back, schedule_if_needed.
\* If the thread is not the owner it waits on its monitor, which gives up the
\* lock; if it is, the lock stays held into RunScheduled.
RunEnqueue(t) ==
    /\ pc[t] \in {"ready", "yielding"}
    /\ NotAborted
    /\ impl_lock = NoThread
    /\ Len(waitqueue) < MaxQueue
    /\ LET s == schedule_if_needed(owner, Append(waitqueue, t))
       IN  /\ owner' = s.owner
           /\ waitqueue' = s.waitqueue
           /\ impl_lock' = IF s.owner = t THEN t ELSE NoThread
           /\ yield_ahead' = IF s.owner # owner
                             THEN [u \in Threads |-> yield_ahead[u] \ {s.owner}]
                             ELSE yield_ahead
    /\ pc' = [pc EXCEPT ![t] = "in_run"]
    /\ arrival' = Append(arrival, t)
    /\ UNCHANGED <<nongil_vars, observers>>
    /\ UNCHANGED <<mem, tid_to_vals_, cwd, tid_to_pwd_, wrote, mydir, sched_hooks,
                   global_at_schedule, hook_count>>

\* run(thread), from the exit of its wait loop (impl->owner == thread) to its
\* return: did_schedule goes to every observer, with the lock held.
RunScheduled(t) ==
    /\ pc[t] = "in_run"
    /\ NotAborted
    /\ owner = t
    /\ impl_lock \in {NoThread, t}
    /\ deliver_did_schedule(t)
    /\ impl_lock' = NoThread
    /\ pc' = [pc EXCEPT ![t] = IF deliver_did_schedule_ok(t) THEN "running" ELSE "aborted"]
    /\ arrival' = RemoveFirst(arrival, t)
    /\ sched_hooks' = Cap2(sched_hooks + 1)
    /\ global_at_schedule' = [global_at_schedule EXCEPT ![t] = mem'["global"]]
    /\ UNCHANGED <<nongil_vars, observers>>
    /\ UNCHANGED <<owner, waitqueue, wrote, mydir, yield_ahead, hook_count>>

\* release(thread), called by a thread that returned from run().
Release(t) ==
    /\ pc[t] = "running"
    /\ NotAborted
    /\ impl_lock = NoThread
    /\ LET s == release(owner, waitqueue, t)
       IN  owner' = s.owner /\ waitqueue' = s.waitqueue
    /\ pc' = [pc EXCEPT ![t] = "ready"]
    /\ yield_ahead' = [yield_ahead EXCEPT ![t] = {}]
    /\ UNCHANGED <<nongil_vars, observers>>
    /\ UNCHANGED <<impl_lock, mem, tid_to_vals_, cwd, tid_to_pwd_, arrival, wrote,
                   mydir, sched_hooks, global_at_schedule, hook_count>>

\* yield(thread): release(thread), then run(thread) (RunEnqueue, RunScheduled).
Yield(t) ==
    /\ pc[t] = "running"
    /\ NotAborted
    /\ impl_lock = NoThread
    /\ LET s == release(owner, waitqueue, t)
       IN  owner' = s.owner /\ waitqueue' = s.waitqueue
    /\ pc' = [pc EXCEPT ![t] = "yielding"]
    /\ yield_ahead' = [yield_ahead EXCEPT ![t] = Range(waitqueue) \ {t}]
    /\ UNCHANGED <<nongil_vars, observers>>
    /\ UNCHANGED <<impl_lock, mem, tid_to_vals_, cwd, tid_to_pwd_, arrival, wrote,
                   mydir, sched_hooks, global_at_schedule, hook_count>>

\* The scheduled thread assigns the published per-thread variable.
WriteV(t, v) ==
    /\ pc[t] = "running"
    /\ NotAborted
    /\ mem' = [mem EXCEPT ![published_] = v]
    /\ wrote' = [wrote EXCEPT ![t] = v]
    /\ UNCHANGED <<nongil_vars, observers>>
    /\ UNCHANGED <<owner, waitqueue, impl_lock, pc, tid_to_vals_, cwd, tid_to_pwd_,
                   arrival, mydir, sched_hooks, yield_ahead, global_at_schedule, hook_count>>

\* The scheduled thread assigns a global (set -g).
SetGlobal(t, v) ==
    /\ pc[t] = "running"
    /\ NotAborted
    /\ mem' = [mem EXCEPT !["global"] = v]
    /\ UNCHANGED <<nongil_vars, observers>>
    /\ UNCHANGED <<owner, waitqueue, impl_lock, pc, tid_to_vals_, cwd, tid_to_pwd_,
                   arrival, wrote, mydir, sched_hooks, yield_ahead, global_at_schedule, hook_count>>

\* The scheduled thread changes the process working directory (cd).
Cd(t, d) ==
    /\ pc[t] = "running"
    /\ NotAborted
    /\ cwd' = d
    /\ mydir' = [mydir EXCEPT ![t] = d]
    /\ UNCHANGED <<nongil_vars, observers>>
    /\ UNCHANGED <<owner, waitqueue, impl_lock, pc, mem, tid_to_vals_, tid_to_pwd_,
                   arrival, wrote, sched_hooks, yield_ahead, global_at_schedule, hook_count>>

\* The scheduler alone: threads are made and destroyed and call run, release, yield.
NextGil ==
    \/ \E t \in Threads : Spawn(t)
    \/ \E t \in Threads : Destroy(t)
    \/ \E t \in Threads : RunEnqueue(t)
    \/ \E t \in Threads : RunScheduled(t)
    \/ \E t \in Threads : Release(t)
    \/ \E t \in Threads : Yield(t)

SpecGil == Init /\ [][NextGil]_vars

\* The scheduler with threads that go on: a thread whose wait loop in run() can
\* exit does exit it (its monitor was notified, or it never waited), a thread
\* that returned from run() comes to call release, and a yield goes on from its
\* release to its run.
SpecGilFair ==
    /\ SpecGil
    /\ \A t \in Threads : WF_vars(RunScheduled(t))
    /\ \A t \in Threads : WF_vars(Release(t))
    /\ \A t \in Threads : WF_vars(pc[t] = "yielding" /\ RunEnqueue(t))

\* release(thread), called by a thread that is not inside run() and has not
\* returned from it either: the assertion aborts the process unless the thread
\* is the owner.
ReleaseUnscheduled(t) ==
    /\ NotAborted
    /\ pc[t] = "ready"
    /\ impl_lock = NoThread
    /\ IF release_ok(owner, t)
       THEN LET s == release(owner, waitqueue, t)
            IN  owner' = s.owner /\ waitqueue' = s.waitqueue /\ UNCHANGED pc
       ELSE /\ pc' = [pc EXCEPT ![t] = "aborted"]
            /\ UNCHANGED <<owner, waitqueue>>
    /\ UNCHANGED <<nongil_vars, observers>>
    /\ UNCHANGED <<impl_lock, mem, tid_to_vals_, cwd, tid_to_pwd_, arrival, wrote,
                   mydir, sched_hooks, yield_ahead, global_at_schedule, hook_count>>

\* yield(thread), called by such a thread: release(thread), then run(thread)
\* if release returns.
YieldUnscheduled(t) ==
    /\ NotAborted
    /\ pc[t] = "ready"
    /\ impl_lock = NoThread
    /\ IF release_ok(owner, t)
       THEN LET s == release(owner, waitqueue, t)
            IN  /\ owner' = s.owner /\ waitqueue' = s.waitqueue
                /\ pc' = [pc EXCEPT ![t] = "yielding"]
                /\ yield_ahead' = [yield_ahead EXCEPT ![t] = Range(waitqueue) \ {t}]
       ELSE /\ pc' = [pc EXCEPT ![t] = "aborted"]
            /\ UNCHANGED <<owner, waitqueue, yield_ahead>>
    /\ UNCHANGED <<nongil_vars, observers>>
    /\ UNCHANGED <<impl_lock, mem, tid_to_vals_, cwd, tid_to_pwd_, arrival, wrote,
                   mydir, sched_hooks, global_at_schedule, hook_count>>

\* The scheduler with threads that also call release and yield out of turn;
\* nothing runs once the process has aborted.
NextMisuse ==
    \/ NextGil
    \/ \E t \in Threads : ReleaseUnscheduled(t)
    \/ \E t \in Threads : YieldUnscheduled(t)

SpecMisuse == Init /\ [][NextMisuse]_vars

\* The scheduler with script that assigns the per-thread variable and a global.
NextVar ==
    \/ NextGil
    \/ \E t \in Threads, v \in Values : WriteV(t, v)
    \/ \E t \in Threads, v \in Values : SetGlobal(t, v)

SpecVar == Init /\ [][NextVar]_vars

\* The scheduler with script that changes directory.
NextCwd ==
    \/ NextGil
    \/ \E t \in Threads, d \in Dirs : Cd(t, d)

SpecCwd == Init /\ [][NextCwd]_vars

(* ------------------- the observers, driven hook by hook ----------------- *)
\* gil_t::add_observer: push_back. The observer added is the variable_t of a
\* fish_exec_tld_t, whose tid_to_vals_ is empty when it is constructed.
AddObserver ==
    /\ NotAborted
    /\ ~registered(variable_t)
    /\ impl_lock = NoThread
    /\ observers' = Append(observers, variable_t)
    /\ tid_to_vals_' = [t \in Threads |-> NoSlot]
    /\ UNCHANGED nongil_vars
    /\ UNCHANGED <<owner, waitqueue, impl_lock, pc, mem, cwd, tid_to_pwd_, arrival, wrote,
                   mydir, sched_hooks, yield_ahead, global_at_schedule, hook_count>>

\* did_spawn(tid) goes to every observer, for a thread just made. Threads are
\* made in the order of their tids.
HookDidSpawn(t) ==
    /\ pc[t] = "fresh"
    /\ NotAborted
    /\ \A u \in Threads : u < t => pc[u] # "fresh"
    /\ deliver_did_spawn(t)
    /\ pc' = [pc EXCEPT ![t] = IF deliver_did_spawn_ok(t) THEN "ready" ELSE "aborted"]
    /\ UNCHANGED <<nongil_vars, observers>>
    /\ UNCHANGED <<owner, waitqueue, impl_lock, arrival, wrote, mydir, sched_hooks,
                   yield_ahead, global_at_schedule, hook_count>>

\* will_destroy(tid) goes to every observer, for a thread that is not scheduled.
HookWillDestroy(t) ==
    /\ pc[t] = "ready"
    /\ NotAborted
    /\ deliver_will_destroy(t)
    /\ pc' = [pc EXCEPT ![t] = IF deliver_will_destroy_ok(t) THEN "dead" ELSE "aborted"]
    /\ UNCHANGED <<nongil_vars, observers>>
    /\ UNCHANGED <<owner, waitqueue, impl_lock, arrival, wrote, mydir, sched_hooks,
                   yield_ahead, global_at_schedule, hook_count>>

\* did_schedule(tid) goes to every observer: the thread was not scheduled and
\* no other thread is.
HookDidSchedule(t) ==
    /\ pc[t] = "ready"
    /\ NotAborted
    /\ \A u \in Threads : pc[u] # "running"
    /\ deliver_did_schedule(t)
    /\ pc' = [pc EXCEPT ![t] = IF deliver_did_schedule_ok(t) THEN "running" ELSE "aborted"]
    /\ UNCHANGED <<nongil_vars, observers>>
    /\ UNCHANGED <<owner, waitqueue, impl_lock, arrival, wrote, mydir, sched_hooks,
                   yield_ahead, global_at_schedule, hook_count>>

\* will_unschedule(tid) goes to every observer: the scheduled thread stops running.
HookWillUnschedule(t) ==
    /\ pc[t] = "running"
    /\ NotAborted
    /\ deliver_will_unschedule(t)
    /\ pc' = [pc EXCEPT ![t] = IF deliver_will_unschedule_ok(t) THEN "ready" ELSE "aborted"]
    /\ UNCHANGED <<nongil_vars, observers>>
    /\ UNCHANGED <<owner, waitqueue, impl_lock, arrival, wrote, mydir, sched_hooks,
                   yield_ahead, global_at_schedule, hook_count>>

\* The hooks that look a slot up.
LookupHooks == {"will_destroy", "will_unschedule", "did_schedule"}

\* A hook delivered for a tid that was never spawned or is already destroyed
\* (a lifecycle bug of the caller).
HookStray(t, hook) ==
    /\ pc[t] \in {"fresh", "dead"}
    /\ NotAborted
    /\ LET ok == CASE hook = "will_destroy" -> deliver_will_destroy_ok(t)
                   [] hook = "will_unschedule" -> deliver_will_unschedule_ok(t)
                   [] hook = "did_schedule" -> deliver_did_schedule_ok(t)
       IN  /\ CASE hook = "will_destroy" -> deliver_will_destroy(t)
                [] hook = "will_unschedule" -> deliver_will_unschedule(t)
                [] hook = "did_schedule" -> deliver_did_schedule(t)
           /\ pc' = [pc EXCEPT ![t] = IF ok THEN @ ELSE "aborted"]
    /\ UNCHANGED <<nongil_vars, observers>>
    /\ UNCHANGED <<owner, waitqueue, impl_lock, arrival, wrote, mydir, sched_hooks,
                   yield_ahead, global_at_schedule, hook_count>>

\* The script of the scheduled thread assigns the published variable.
HookAssign(t, v) ==
    /\ pc[t] = "running"
    /\ NotAborted
    /\ mem' = [mem EXCEPT ![published_] = v]
    /\ UNCHANGED <<nongil_vars, observers>>
    /\ UNCHANGED <<owner, waitqueue, impl_lock, pc, tid_to_vals_, cwd, tid_to_pwd_, arrival,
                   wrote, mydir, sched_hooks, yield_ahead, global_at_schedule, hook_count>>

\* The script of the scheduled thread changes directory.
HookChdir(t, d) ==
    /\ pc[t] = "running"
    /\ NotAborted
    /\ cwd' = d
    /\ UNCHANGED <<nongil_vars, observers>>
    /\ UNCHANGED <<owner, waitqueue, impl_lock, pc, mem, tid_to_vals_, tid_to_pwd_, arrival,
                   wrote, mydir, sched_hooks, yield_ahead, global_at_schedule, hook_count>>

\* The observers under every sequence of hooks, the script of the scheduled
\* thread assigning the published variable and changing directory in between.
NextHook ==
    \/ AddObserver
    \/ \E t \in Threads : HookDidSpawn(t)
    \/ \E t \in Threads : HookWillDestroy(t)
    \/ \E t \in Threads : HookDidSchedule(t)
    \/ \E t \in Threads : HookWillUnschedule(t)
    \/ \E t \in Threads, hook \in LookupHooks : HookStray(t, hook)
    \/ \E t \in Threads, v \in Values : HookAssign(t, v)
    \/ \E t \in Threads, d \in Dirs : HookChdir(t, d)

\* The principal GIL as create_principal_gil leaves it: cd_observer_t alone.
InitHook ==
    /\ InitBut
    /\ observers = <<cd_observer_t>>

SpecHook == InitHook /\ [][NextHook]_vars

(* ----------------------- chdir_serializer_t: actions -------------------- *)
\* A call returns: record what it did as the last call.
\* tk is the ticket of the last turn taken so far.
cs_return(path, tk, err, want_lock) ==
    cs_last' = [seq |-> 1 - cs_last.seq, path |-> path, ticket |-> tk,
                err |-> err, lock |-> want_lock]

\* Store a data_t back into the serializer.
cs_store(data) ==
    /\ current' = data.current
    /\ lock_count' = data.lock_count
    /\ next_available' = data.next_available
    /\ now_serving' = data.now_serving

\* lock_cwd from "It's our turn" on, for caller t with ticket tk, the data_t as
\* it stands (data) and fchdir's final result fres. The 'Should be no locks'
\* assertion aborts the process if a lock is held.
its_our_turn(t, data, dir_fd, want_lock, tk, fres) ==
    IF data.lock_count # 0
    THEN /\ cs_aborted' = "no_locks"
         /\ cs_store(data)
         /\ cs_pc' = [cs_pc EXCEPT ![t] = "aborted"]
         /\ ticket' = [ticket EXCEPT ![t] = tk]
         /\ req' = [req EXCEPT ![t] = [dir |-> dir_fd, lock |-> want_lock]]
         /\ UNCHANGED <<locked, token_dir, cs_last, cwd>>
    ELSE LET r == slow_turn(data, dir_fd, want_lock, fres) IN
         /\ cs_store(r.data)
         /\ cwd' = IF r.fchdir /\ r.err = NoErr THEN dir_fd ELSE cwd
         /\ locked' = [locked EXCEPT ![t] = r.locked]
         /\ token_dir' = [token_dir EXCEPT ![t] = IF r.locked THEN dir_fd ELSE NoDir]
         /\ cs_pc' = [cs_pc EXCEPT ![t] = "idle"]
         /\ ticket' = [ticket EXCEPT ![t] = 0]
         /\ req' = [req EXCEPT ![t] = NoReq]
         /\ cs_return("slow", tk, r.err, want_lock)
         /\ UNCHANGED cs_aborted

\* locking_fchdir(dir_fd, out_lock) up to its return or to its first wait on the
\* condition variable. want_lock says whether out_lock is non-null.
LockCwd(t, dir_fd, want_lock, fres) ==
    /\ cs_aborted = "none"
    /\ cs_pc[t] = "idle"
    /\ ~locked[t]
    /\ IF fast_path(Data, dir_fd)
       THEN /\ cs_store(fast_turn(Data, want_lock))
            /\ locked' = [locked EXCEPT ![t] = want_lock]
            /\ token_dir' = [token_dir EXCEPT ![t] = IF want_lock THEN dir_fd ELSE NoDir]
            /\ cs_return("fast", cs_last.ticket, NoErr, want_lock)
            /\ UNCHANGED <<cs_pc, ticket, req, cs_aborted, cwd>>
       ELSE /\ next_available < MaxTicket
            /\ IF ~tickets_monotone(Data)
               THEN /\ cs_aborted' = "monotone"
                    /\ cs_pc' = [cs_pc EXCEPT ![t] = "aborted"]
                    /\ UNCHANGED <<current, lock_count, next_available, now_serving,
                                   ticket, req, locked, token_dir, cs_last, cwd>>
               ELSE LET tk == next_available
                        data == [Data EXCEPT !.next_available = @ + 1]
                    IN  IF data.now_serving # tk
                        THEN /\ cs_store(data)
                             /\ cs_pc' = [cs_pc EXCEPT ![t] = "waiting"]
                             /\ ticket' = [ticket EXCEPT ![t] = tk]
                             /\ req' = [req EXCEPT ![t] = [dir |-> dir_fd, lock |-> want_lock]]
                             /\ UNCHANGED <<locked, token_dir, cs_aborted, cs_last, cwd>>
                        ELSE its_our_turn(t, data, dir_fd, want_lock, tk, fres)
    /\ UNCHANGED <<buf_vars, fill_vars, jg_vars>>
    /\ UNCHANGED gil_vars

\* A caller waiting on the condition variable finds now_serving == ticket and
\* runs the rest of lock_cwd.
Turn(t, fres) ==
    /\ cs_aborted = "none"
    /\ cs_pc[t] = "waiting"
    /\ now_serving = ticket[t]
    /\ its_our_turn(t, Data, req[t].dir, req[t].lock, ticket[t], fres)
    /\ UNCHANGED <<buf_vars, fill_vars, jg_vars>>
    /\ UNCHANGED gil_vars

\* ~fchdir_lock_t of a locked token: release_cwd_lock.
ReleaseCwdLock(t) ==
    /\ cs_aborted = "none"
    /\ cs_pc[t] = "idle"
    /\ locked[t]
    /\ IF lock_count > 0
       THEN /\ cs_store(release_cwd_lock(Data))
            /\ UNCHANGED cs_aborted
       ELSE /\ cs_aborted' = "lock_count"
            /\ UNCHANGED <<current, lock_count, next_available, now_serving>>
    /\ locked' = [locked EXCEPT ![t] = FALSE]
    /\ token_dir' = [token_dir EXCEPT ![t] = NoDir]
    /\ UNCHANGED <<cs_pc, ticket, req, cs_last, cwd>>
    /\ UNCHANGED <<buf_vars, fill_vars, jg_vars>>
    /\ UNCHANGED gil_vars

FchdirResults == {NoErr, ENOENT}

\* The chdir serializer alone.
NextChdir ==
    \/ \E t \in Threads, d \in Dirs, l \in BOOLEAN, fres \in FchdirResults :
          LockCwd(t, d, l, fres)
    \/ \E t \in Threads, fres \in FchdirResults : Turn(t, fres)
    \/ \E t \in Threads : ReleaseCwdLock(t)

SpecChdir == Init /\ [][NextChdir]_vars

\* The scheduler with script that calls locking_fchdir and drops its token
\* while it is scheduled: the serializer's fchdir and the chdir of
\* cd_observer_t::did_schedule act on the same process cwd.
NextCdSwitch ==
    \/ NextGil
    \/ \E t \in Threads, d \in Dirs, l \in BOOLEAN, fres \in FchdirResults :
          pc[t] = "running" /\ NotAborted /\ LockCwd(t, d, l, fres)
    \/ \E t \in Threads : pc[t] = "running" /\ NotAborted /\ ReleaseCwdLock(t)

SpecCdSwitch == Init /\ [][NextCdSwitch]_vars

\* The serializer where a caller whose turn has come takes it (the condition
\* variable is notified on every advance) and every token holder eventually
\* releases.
SpecChdirFair ==
    /\ SpecChdir
    /\ \A t \in Threads : WF_vars(\E fres \in FchdirResults : Turn(t, fres))
    /\ \A t \in Threads : WF_vars(ReleaseCwdLock(t))


(* ------------------------------- claims -------------------------------- *)

\* C1: mutual exclusion. At most one thread has is_scheduled(T), and every
\* thread that has returned from run() and not yet called release or yield is
\* that thread: no two threads are between run and release at once.
MutualExclusion ==
    /\ Cardinality({t \in Threads : is_scheduled(t)}) <= 1
    /\ \A t \in Threads : pc[t] = "running" => is_scheduled(t)

\* C1 witness: one thread runs while another is blocked in run().
MutualExclusionWitness ==
    \E t, u \in Threads :
        /\ t # u
        /\ pc[t] = "running"
        /\ pc[u] = "in_run"
        /\ u \in Range(waitqueue)

\* C2: FIFO fairness. A thread returns from run() as the owner only when no
\* thread whose push_back came earlier is still inside run(): the thread that
\* returns is the earliest arrival.
FifoFairness ==
    [][\A t \in Threads :
          (pc[t] = "in_run" /\ pc'[t] = "running") => Head(arrival) = t]_vars

\* C3: per-thread state consistency. A scheduled thread that has written v to
\* the published variable reads v, whatever was released, yielded, run or
\* written in between.
PerThreadConsistency ==
    \A t \in Threads :
        (pc[t] = "running" /\ wrote[t] # NoVal) => mem[published_] = wrote[t]

\* C4: cwd isolation. Whenever a thread is scheduled, the process working
\* directory is the one the thread had at spawn or after its own last cd.
CwdIsolation ==
    \A t \in Threads : pc[t] = "running" => cwd = mydir[t]

ReleaseClearsOwner ==
    \A t \in Threads : pc[t] \in {"ready", "yielding"} => ~is_scheduled(t)

\* C7: a yield goes to the back of the queue. When yield returns, every thread
\* that was waiting at the time of the call has been the owner.
YieldGoesToBack ==
    \A t \in Threads : pc[t] = "running" => yield_ahead[t] = {}

\* C8: observer ordering. Two did_schedule deliveries never occur without a
\* will_unschedule of the previously scheduled thread between them.
ObserverOrdering == sched_hooks <= 1

\* C9: will_destroy follows the final release. A spawned thread that is
\* outside run(), so one that has made its final release, may be destroyed: it
\* is neither the owner nor enqueued, and will_destroy has not yet been delivered.
DestroyFollowsFinalRelease ==
    \A t \in Threads :
        (pc[t] = "ready" /\ hook_count[t].spawn = 1)
            => (hook_count[t].destroy = 0 /\ owner # t /\ t \notin Range(waitqueue))

\* C10: the owner is never an element of the waitqueue.
OwnerNotInWaitqueue ==
    owner = NoThread \/ owner \notin Range(waitqueue)


(* ----------------------- separated_buffer_t: actions -------------------- *)
\* Store a separated_buffer_t record back into the buffer.
buf_store(buf) ==
    /\ buffer_limit_' = buf.buffer_limit_
    /\ contents_size_' = buf.contents_size_
    /\ elements_' = buf.elements_
    /\ discard' = buf.discard

\* delta more bytes fit: the buffer is not discarding, the sum does not wrap
\* size_t and it does not exceed a nonzero limit.
Fits(delta) ==
    /\ ~discard
    /\ contents_size_ + delta <= SizeMax
    /\ (buffer_limit_ = 0 \/ contents_size_ + delta <= buffer_limit_)

\* separated_buffer_t(limit): the buffer is constructed, once.
Construct(limit) ==
    /\ buf_last.op = "none"
    /\ buf_store(separated_buffer_t(limit))
    /\ buf_last' = [op |-> "construct", str |-> <<>>, sep |-> inferred]
    /\ buf_appended' = <<>>
    /\ UNCHANGED <<gil_vars, cwd, cs_vars, fill_vars, jg_vars>>

\* append(str, sep) on the buffer, with its history.
buf_append(str, sep) ==
    /\ buf_store(append(Buf, str, sep))
    /\ buf_last' = [op |-> "append", str |-> str, sep |-> sep]
    /\ buf_appended' =
          IF Fits(Len(str))
          THEN buf_appended \o str \o (IF sep = explicitly THEN <<Newline>> ELSE <<>>)
          ELSE <<>>

\* append(str, sep).
BufAppend(str, sep) ==
    /\ buf_last.op # "none"
    /\ Len(elements_) < MaxElems
    /\ buf_append(str, sep)
    /\ UNCHANGED <<gil_vars, cwd, cs_vars, fill_vars, jg_vars>>

\* set_discard().
SetDiscard ==
    /\ buf_last.op # "none"
    /\ buf_store(set_discard(Buf))
    /\ buf_last' = [op |-> "set_discard", str |-> <<>>, sep |-> inferred]
    /\ buf_appended' = <<>>
    /\ UNCHANGED <<gil_vars, cwd, cs_vars, fill_vars, jg_vars>>

\* reset_discard().
ResetDiscard ==
    /\ buf_last.op # "none"
    /\ buf_store(reset_discard(Buf))
    /\ buf_last' = [op |-> "reset_discard", str |-> <<>>, sep |-> inferred]
    /\ UNCHANGED buf_appended
    /\ UNCHANGED <<gil_vars, cwd, cs_vars, fill_vars, jg_vars>>

\* The limits a buffer is constructed with: none, or BufferLimit.
Limits == {0, BufferLimit}

\* The separated buffer alone.
NextBuf ==
    \/ \E limit \in Limits : Construct(limit)
    \/ \E str \in Strings, sep \in separation_type_t : BufAppend(str, sep)
    \/ SetDiscard
    \/ ResetDiscard

SpecBuf == Init /\ [][NextBuf]_vars

(* --------------------------- io_buffer_t: actions ----------------------- *)
\* io_buffer_t(limit): construct buffer_ and reset its discard flag.
IoBufferConstruct(limit) ==
    /\ buf_last.op = "none"
    /\ buf_store(reset_discard(separated_buffer_t(limit)))
    /\ buf_last' = [op |-> "construct", str |-> <<>>, sep |-> inferred]
    /\ buf_appended' = <<>>
    /\ fill_step' = "construct"
    /\ UNCHANGED <<fillthread_waiter_, shutdown_fillthread_, fill_pc, main_pc, io_aborted>>
    /\ UNCHANGED <<gil_vars, cwd, cs_vars, jg_vars>>

\* begin_background_fillthread: make the promise and its future and start the
\* fillthread.
BeginBackgroundFillthread ==
    /\ ~io_aborted
    /\ buf_last.op # "none"
    /\ main_pc = "idle"
    /\ fill_state = "idle"
    /\ ~fillthread_running
    /\ fillthread_waiter_' = "pending"
    /\ fill_pc' = "running"
    /\ fill_step' = "begin"
    /\ UNCHANGED <<shutdown_fillthread_, main_pc, io_aborted>>
    /\ UNCHANGED <<gil_vars, cwd, cs_vars, buf_vars, jg_vars>>

\* The fillthread reads str from the fd and appends it, under append_lock_.
FillRead(str) ==
    /\ ~io_aborted
    /\ fill_pc = "running"
    /\ Len(elements_) < MaxElems
    /\ buf_append(str, inferred)
    /\ fill_step' = "read"
    /\ UNCHANGED <<fillthread_waiter_, shutdown_fillthread_, fill_pc, main_pc, io_aborted>>
    /\ UNCHANGED <<gil_vars, cwd, cs_vars, jg_vars>>

\* The fillthread exits (end of file, a read error or the shutdown flag) and
\* fulfills its promise.
FillExit ==
    /\ ~io_aborted
    /\ fill_pc = "running"
    /\ fill_pc' = "exited"
    /\ fillthread_waiter_' = "ready"
    /\ fill_step' = "exit"
    /\ UNCHANGED <<shutdown_fillthread_, main_pc, io_aborted>>
    /\ UNCHANGED <<gil_vars, cwd, cs_vars, buf_vars, jg_vars>>

\* complete_background_fillthread, up to its wait on the future.
CompleteShutdown ==
    /\ ~io_aborted
    /\ main_pc = "idle"
    /\ fillthread_running
    /\ shutdown_fillthread_' = TRUE
    /\ main_pc' = "waiting"
    /\ fill_step' = "shutdown"
    /\ UNCHANGED <<fillthread_waiter_, fill_pc, io_aborted>>
    /\ UNCHANGED <<gil_vars, cwd, cs_vars, buf_vars, jg_vars>>

\* complete_background_fillthread: the wait returns and the future is cleared.
CompleteWaited ==
    /\ ~io_aborted
    /\ main_pc = "waiting"
    /\ fillthread_waiter_ = "ready"
    /\ fillthread_waiter_' = "invalid"
    /\ main_pc' = "idle"
    /\ fill_step' = "complete"
    /\ UNCHANGED <<shutdown_fillthread_, fill_pc, io_aborted>>
    /\ UNCHANGED <<gil_vars, cwd, cs_vars, buf_vars, jg_vars>>

\* io_buffer_t::append from the main thread, under append_lock_.
IoAppend(str) ==
    /\ ~io_aborted
    /\ buf_last.op # "none"
    /\ main_pc = "idle"
    /\ Len(elements_) < MaxElems
    /\ buf_append(str, inferred)
    /\ fill_step' = "append"
    /\ UNCHANGED <<fillthread_waiter_, shutdown_fillthread_, fill_pc, main_pc, io_aborted>>
    /\ UNCHANGED <<gil_vars, cwd, cs_vars, jg_vars>>

\* buffer(): a reader, which by contract has waited for a fill it began,
\* reaches the accessor and its assertion.
ReadBuffer ==
    /\ ~io_aborted
    /\ buf_last.op # "none"
    /\ main_pc = "idle"
    /\ fill_state # "running"
    /\ io_aborted' = fillthread_running
    /\ fill_step' = "buffer"
    /\ UNCHANGED <<fillthread_waiter_, shutdown_fillthread_, fill_pc, main_pc>>
    /\ UNCHANGED <<gil_vars, cwd, cs_vars, buf_vars, jg_vars>>

\* What the fillthread reads at a time: at least one byte.
ReadChunks == Strings \ {<<>>}

\* The buffer fill alone.
NextFill ==
    \/ \E limit \in Limits : IoBufferConstruct(limit)
    \/ BeginBackgroundFillthread
    \/ \E str \in ReadChunks : FillRead(str)
    \/ FillExit
    \/ CompleteShutdown
    \/ CompleteWaited
    \/ \E str \in ReadChunks : IoAppend(str)
    \/ ReadBuffer

SpecFill == Init /\ [][NextFill]_vars

(* --------------------------- job_group_t: actions ----------------------- *)
\* The concurrent feature is enabled, before any job is run.
EnableConcurrent ==
    /\ ~concurrent
    /\ groups = {}
    /\ concurrent' = TRUE
    /\ jg_last' = NoPgid
    /\ UNCHANGED <<consumed_job_ids, groups, children, jg_aborted>>
    /\ UNCHANGED <<gil_vars, cwd, cs_vars, buf_vars, fill_vars>>

\* The pids execute_fork can return: those of no unreaped child.
FreePids == ChildPids \ children

\* What execute_fork returns: pids being interchangeable, the lowest free one.
execute_fork ==
    IF FreePids = {} THEN NoPgid
    ELSE CHOOSE pid \in FreePids : \A q \in FreePids : pid <= q

\* What a job_group_ref_t given as proposed can refer to.
Proposable == groups \cup {NoGroup}

\* The results of setpgid(pid, pid) in the parent.
SetpgidResults == {NoErr, EPERM}

\* create_owned_pgid given what execute_fork and setpgid return: a failure of
\* setpgid is printed by wperror, and the forked pid is returned either way.
create_owned_pgid(forked, setpgid_err) ==
    [pid |-> forked, wperror |-> setpgid_err # NoErr]

\* What populate_group_for_job(job, proposed) does in the current state when
\* setpgid returns setpgid_err to create_owned_pgid.
PopulatedOnSetpgid(job, proposed, setpgid_err) ==
    populate_group_for_job(job, proposed, concurrent, consumed_job_ids,
                           create_owned_pgid(execute_fork, setpgid_err).pid)

\* What populate_group_for_job(job, proposed) does in the current state.
Populated(job, proposed) == PopulatedOnSetpgid(job, proposed, NoErr)

\* populate_group_for_job(job, proposed), with setpgid returning setpgid_err
\* if an owner is forked.
PopulateGroupForJob(job, proposed, setpgid_err) ==
    /\ ~jg_aborted
    /\ LET pid == execute_fork
           r == PopulatedOnSetpgid(job, proposed, setpgid_err)
       IN  /\ r.new => Cardinality(groups) < MaxGroups
           /\ r.forked => FreePids # {}
           /\ r.acquired => r.group.job_id <= MaxJobId
           /\ IF r.ok
              THEN /\ groups' = IF r.new THEN groups \cup {r.group} ELSE groups
                   /\ consumed_job_ids' = r.ids
                   /\ children' = IF r.forked THEN children \cup {pid} ELSE children
                   /\ UNCHANGED jg_aborted
              ELSE /\ jg_aborted' = TRUE
                   /\ UNCHANGED <<groups, consumed_job_ids, children>>
           /\ jg_last' = NoPgid
    /\ UNCHANGED concurrent
    /\ UNCHANGED <<gil_vars, cwd, cs_vars, buf_vars, fill_vars>>

\* The last reference to a group is dropped: ~job_group_t.
DestroyGroup(group) ==
    /\ ~jg_aborted
    /\ LET d == job_group_dtor(group, children, consumed_job_ids) IN
       /\ IF d.ok
          THEN /\ groups' = groups \ {group}
               /\ consumed_job_ids' = d.ids
               /\ children' = d.children
               /\ UNCHANGED jg_aborted
          ELSE /\ jg_aborted' = TRUE
               /\ UNCHANGED <<groups, consumed_job_ids, children>>
       /\ jg_last' = d.pid
    /\ UNCHANGED concurrent
    /\ UNCHANGED <<gil_vars, cwd, cs_vars, buf_vars, fill_vars>>

\* The job groups alone.
NextJob ==
    \/ EnableConcurrent
    \/ \E job \in Jobs, proposed \in Proposable, setpgid_err \in SetpgidResults :
          PopulateGroupForJob(job, proposed, setpgid_err)
    \/ \E group \in groups : DestroyGroup(group)

SpecJob == Init /\ [][NextJob]_vars

\* Everything together.
Next ==
    \/ NextVar
    \/ \E t \in Threads, d \in Dirs : Cd(t, d)
    \/ NextChdir
    \/ NextBuf
    \/ NextFill
    \/ NextJob

Spec == Init /\ [][Next]_vars

(* --------------------- claims: chdir_serializer_t ----------------------- *)
\* Some caller holds a token (a locked fchdir_lock_t).
TokenHeld == \E t \in Threads : locked[t]

\* C11: a slow-path caller's turn begins only when lock_count is 0, so the
\* 'Should be no locks' assertion never fails, and every live token's
\* directory is `current`.
NoLocksWhenTurnBegins ==
    /\ cs_aborted # "no_locks"
    /\ \A t \in Threads : locked[t] => token_dir[t] = current

\* Some caller is blocked in lock_cwd's wait loop.
SomeoneWaiting == \E u \in Threads : cs_pc[u] = "waiting"

\* C12: while tokens are held for a directory and no caller for a different
\* directory is waiting, another locking_fchdir for that directory does not
\* wait, whichever path the holders acquired through.
SameDirSharesWithoutWaiting ==
    [][\A t \in Threads :
          (/\ cs_pc[t] = "idle"
           /\ cs_pc'[t] = "waiting"
           /\ \E u \in Threads : locked[u] /\ token_dir[u] = req'[t].dir)
          => \E u \in Threads : cs_pc[u] = "waiting" /\ req[u].dir # req'[t].dir]_vars

\* C13: turns are taken in strictly increasing ticket order, and no call
\* returns, by either path, while a caller with an earlier ticket is waiting.
TicketOrder ==
    [][cs_last'.seq # cs_last.seq =>
          IF cs_last'.path = "slow"
          THEN /\ cs_last'.ticket > cs_last.ticket
               /\ \A u \in Threads : cs_pc[u] = "waiting" => ticket[u] >= cs_last'.ticket
          ELSE /\ cs_last'.ticket = cs_last.ticket
               /\ ~SomeoneWaiting]_vars

\* A token is held for the current directory; behind a waiter for another
\* directory a later caller waits although its directory is the current one.
TicketOrderWitness ==
    /\ TokenHeld
    /\ \E u, v \in Threads :
          /\ cs_pc[u] = "waiting" /\ cs_pc[v] = "waiting"
          /\ ticket[u] < ticket[v]
          /\ req[u].dir # current
          /\ req[v].dir = current

\* C14: every call of locking_fchdir eventually returns.
EveryCallReturns == \A t \in Threads : (cs_pc[t] # "idle") ~> (cs_pc[t] = "idle")

TicketsMonotone ==
    /\ [](now_serving <= next_available)
    /\ [][now_serving' >= now_serving /\ next_available' >= next_available]_vars

\* A token taken on the fast path has been released with no ticket out, after
\* both counters have advanced.
TicketsMonotoneWitness ==
    /\ now_serving = next_available
    /\ now_serving > 0
    /\ lock_count = 0
    /\ cs_last.path = "fast"
    /\ cs_last.lock
    /\ ~TokenHeld

(* --------------------- claims: separated_buffer_t ----------------------- *)
\* The sum of the lengths of the contents of a sequence of elements.
RECURSIVE SumLen(_)
SumLen(elems) ==
    IF elems = <<>> THEN 0 ELSE Len(Head(elems).contents) + SumLen(Tail(elems))

\* The contents of a sequence of elements, one after the other.
RECURSIVE Flat(_)
Flat(elems) ==
    IF elems = <<>> THEN <<>> ELSE Head(elems).contents \o Flat(Tail(elems))

\* The indices of the explicitly separated elements.
ExplicitElems == {i \in 1..Len(elements_) : is_explicitly_separated(elements_[i])}

\* C17: after any sequence of appends, set_discard and reset_discard, size()
\* is the sum of the lengths of the elements' contents.
SizeIsSumOfLengths == size = SumLen(elements_)

\* Appends of both kinds have left a nonempty explicitly separated element
\* and a nonempty inferred one.
SizeIsSumOfLengthsWitness ==
    /\ buf_last.op = "append"
    /\ \E i, j \in 1..Len(elements_) :
          /\ is_explicitly_separated(elements_[i]) /\ elements_[i].contents # <<>>
          /\ ~is_explicitly_separated(elements_[j]) /\ elements_[j].contents # <<>>

\* C18: a discarding buffer has no elements and size 0, an append to it
\* stores nothing, and only reset_discard clears the flag.
DiscardedIsEmpty ==
    /\ [](discarded => elements_ = <<>> /\ size = 0)
    /\ [][discard =>
             /\ buf_last'.op = "append" => elements_' = <<>> /\ size' = 0
             /\ ~discard' => buf_last'.op = "reset_discard"]_vars

\* An empty, explicitly separated string (which takes no space) was appended
\* to a discarding buffer.
DiscardedIsEmptyWitness ==
    /\ discarded
    /\ buf_last.op = "append"
    /\ buf_last.str = <<>>
    /\ buf_last.sep = explicitly

\* C19: an append of delta bytes is stored iff the buffer is not discarding,
\* size + delta does not wrap size_t and, for a nonzero limit, size + delta
\* <= limit; otherwise the buffer discards: no elements, size 0, flag set.
AppendStoredIffFits ==
    [][buf_last'.op = "append" =>
          LET delta == Len(buf_last'.str) IN
          IF Fits(delta)
          THEN /\ ~discard'
               /\ size' = size + delta
               /\ Flat(elements_') = Flat(elements_) \o buf_last'.str
          ELSE /\ discard'
               /\ elements_' = <<>>
               /\ size' = 0]_vars

\* An append has brought a limited buffer to its limit exactly.
AppendStoredIffFitsWitness ==
    /\ buf_last.op = "append"
    /\ buf_last.str # <<>>
    /\ buffer_limit_ > 0
    /\ size = buffer_limit_
    /\ ~discarded

\* C20: newline_serialized() is the appended strings in order with one
\* newline after each explicitly separated one and none after an inferred
\* one; its length is size() plus the number of explicit elements.
SerializedIsAppended ==
    /\ newline_serialized(elements_) = buf_appended
    /\ Len(newline_serialized(elements_)) = size + Cardinality(ExplicitElems)

\* An explicitly separated string is followed by an inferred one.
SerializedIsAppendedWitness ==
    /\ Len(elements_) >= 2
    /\ is_explicitly_separated(elements_[1]) /\ elements_[1].contents # <<>>
    /\ ~is_explicitly_separated(elements_[2]) /\ Len(elements_[2].contents) >= 2

\* C21: when an inferred string has been appended, an inferred append of a
\* second string leaves the buffer (elements, size, discard flag) as a single
\* append of the two strings joined would have left it; a longer sequence of
\* pieces is this step repeated.
ChunkingIndependent ==
    [][(buf_last'.op = "append" /\ buf_last'.sep = inferred) =>
          \A p2 \in Strings :
              append(Buf', p2, inferred) = append(Buf, buf_last'.str \o p2, inferred)]_vars

\* An inferred string has been coalesced into an inferred last element that
\* follows an explicitly separated one, and there is room for more.
ChunkingIndependentWitness ==
    /\ buf_last.op = "append"
    /\ buf_last.sep = inferred
    /\ buf_last.str # <<>>
    /\ Len(elements_) = 2
    /\ is_explicitly_separated(elements_[1])
    /\ ~is_explicitly_separated(elements_[2])
    /\ elements_[2].contents # buf_last.str
    /\ Fits(1)

Numbered == {g \in groups : g.job_id > 0}
IdsInUse == {g.job_id : g \in Numbered}

\* The largest element of a nonempty set of numbers.
Largest(S) == CHOOSE x \in S : \A y \in S : y <= x

\* C23: the live groups with a positive job id have pairwise distinct ids,
\* and a newly allocated id is 1 when no id is in use and otherwise one more
\* than the largest id in use.
JobIdsUnique ==
    /\ [](/\ \A g, h \in Numbered : g # h => g.job_id # h.job_id
          /\ Len(consumed_job_ids) = Cardinality(Numbered))
    /\ [][\A g \in Numbered' \ groups :
             g.job_id = IF IdsInUse = {} THEN 1 ELSE Largest(IdsInUse) + 1]_vars

\* Ids 2 and 3 are in use and 1 is free again: 3 was allocated as the largest
\* plus one, not as the smallest free id.
JobIdsUniqueWitness ==
    /\ IdsInUse = {2, 3}
    /\ consumed_job_ids = <<2, 3>>

\* C24: a group's pgid, once set, never changes: no set_pgid assertion
\* fails, and no group is given both fish's pgid and a forked owner's pid.
PgidNeverChanges ==
    /\ [](~jg_aborted)
    /\ [](\A g \in groups : g.owns_pgid => g.pgid \in ChildPids)
    /\ [][\A g \in Numbered, h \in Numbered' :
             (h.job_id = g.job_id /\ g.pgid # NoPgid) => h.pgid = g.pgid]_vars

\* In concurrent mode a group in fish's own process group lives next to a
\* group that owns its pgid.
PgidNeverChangesWitness ==
    /\ concurrent
    /\ \E g, h \in groups :
          /\ g.pgid = FishPgid /\ ~g.owns_pgid
          /\ h.owns_pgid /\ h.pgid \in children

\* C25: in concurrent mode with job control, a group created for a pipeline
\* of two or more processes with an internal one has a pgid when
\* populate_group_for_job returns.
PipelineHasPgid ==
    concurrent =>
        \A proposed \in Proposable :
            \A job \in {j \in Jobs : /\ j.wants_job_control
                                      /\ Len(j.processes) >= 2
                                      /\ has_internal_proc(j)} :
                LET r == Populated(job, proposed) IN
                (r.new /\ FreePids # {}) => r.group.pgid # NoPgid

\* A background pipeline under job control has been given a forked owner's
\* pid as its pgid.
PipelineHasPgidWitness ==
    /\ concurrent
    /\ \E g \in groups :
          /\ g.job_control
          /\ ~g.is_foreground
          /\ g.owns_pgid

\* C26: a new group that is not internal gets a process group other than
\* fish's own if its job wants job control, and fish's own pgid if not.
OwnPgidUnderJobControl ==
    \A g \in groups :
        ~g.is_internal =>
            IF g.job_control
            THEN g.pgid # FishPgid
            ELSE g.pgid = FishPgid

\* C27: a background job launched under job control by a background job
\* gets a group of its own whose pgid differs from the launcher's (a pgid
\* not yet assigned will be the pid of the job's first child).
NestedBackgroundPgidsDiffer ==
    \A proposed \in groups :
        (proposed.job_control /\ ~proposed.is_foreground) =>
            \A job \in {j \in Jobs : j.wants_job_control /\ j.is_initially_background} :
                LET r == Populated(job, proposed) IN
                /\ r.new
                /\ r.group # proposed
                /\ r.group.pgid = NoPgid \/ r.group.pgid # proposed.pgid

\* C28: an owner is forked for a new group exactly when the concurrent
\* feature is on, the group has not been put in fish's process group, and the
\* job has two or more processes, one of them internal; its pid is then the
\* group's pgid and owns_pgid is set. With the feature off nothing is forked.
OwnerForkedIff ==
    /\ \A proposed \in Proposable, job \in Jobs :
          LET r == Populated(job, proposed) IN
          /\ r.forked <=> /\ concurrent
                          /\ r.new
                          /\ r.group.pgid # FishPgid
                          /\ Len(job.processes) >= 2
                          /\ has_internal_proc(job)
          /\ r.forked => r.group.pgid = execute_fork
          /\ r.new => (r.group.owns_pgid <=> r.forked)
    /\ ~concurrent => children = {} /\ \A g \in groups : ~g.owns_pgid

\* A foreground pipeline's group owns its pgid, the pid of an unreaped child.
OwnerForkedIffWitness ==
    /\ concurrent
    /\ \E g \in groups :
          /\ g.is_foreground
          /\ g.owns_pgid
          /\ g.pgid \in children

\* The pgids owned by live groups.
OwnedPgids == {g.pgid : g \in {h \in groups : h.owns_pgid}}

SingleForegroundInternal(job) ==
    /\ Len(job.processes) = 1
    /\ job.processes[1]
    /\ ~job.is_initially_background

\* C30: a group is created iff there is no proposed group, or the job is
\* initially background, or the proposed group is internal and the job is
\* not a single foreground internal process; else the job inherits the
\* proposed group, no job id is allocated and nothing is forked. The new group
\* is internal (no job id, no pgid) iff the job is a single internal process
\* that is not backgrounded.
NewGroupIff ==
    \A proposed \in Proposable, job \in Jobs :
        LET r == Populated(job, proposed) IN
        /\ r.new <=> \/ proposed = NoGroup
                     \/ job.is_initially_background
                     \/ proposed.is_internal /\ ~SingleForegroundInternal(job)
        /\ ~r.new => /\ r.group = proposed
                     /\ r.ids = consumed_job_ids
                     /\ ~r.acquired /\ ~r.forked
        /\ r.new => /\ r.group.is_internal <=> SingleForegroundInternal(job)
                    /\ r.group.is_internal =>
                          r.group.job_id = NoJobId /\ r.group.pgid = NoPgid
                    /\ ~r.group.is_internal => r.group.job_id > 0

\* An internal group lives next to a group that had to be created for a job
\* which could not use it.
NewGroupIffWitness ==
    \E g, h \in groups :
        /\ g.is_internal
        /\ ~h.is_internal /\ h.is_foreground

\* C31: if setpgid fails while a pgid owner is created, the failure is
\* logged and not fatal, and the group is neither given the owner's pid as its
\* pgid nor marked as owning a pgid.
FailedOwnerNotAdopted ==
    \A proposed \in Proposable, job \in Jobs :
        LET r == PopulatedOnSetpgid(job, proposed, EPERM) IN
        (r.forked /\ FreePids # {}) =>
            /\ create_owned_pgid(execute_fork, EPERM).wperror
            /\ r.ok
            /\ r.group.pgid # execute_fork
            /\ ~r.group.owns_pgid

\* C32: release(T) or yield(T) by a thread that is not the owner aborts: a
\* yield out of turn never gets as far as run(), and the call that aborts
\* leaves the owner, the waitqueue and the observers' state as they were.
NonOwnerReleaseAborts ==
    /\ [][\A t \in Threads :
             (pc[t] = "ready" /\ t # owner) => pc'[t] \in {"ready", "aborted", "in_run", "dead"}]_vars
    /\ [][\A t \in Threads :
             (pc[t] # "aborted" /\ pc'[t] = "aborted") =>
                /\ t # owner
                /\ UNCHANGED <<owner, waitqueue, mem, tid_to_vals_, cwd, tid_to_pwd_>>]_vars

\* A thread has aborted in release while another thread owns the GIL and a
\* third waits in run().
NonOwnerReleaseAbortsWitness ==
    \E t \in Threads :
        /\ pc[t] = "aborted"
        /\ owner \notin {NoThread, t}
        /\ waitqueue # <<>>

\* C33: a hook that looks up the slot of a tid which has none (will_destroy,
\* will_unschedule, did_schedule, and will_schedule for its old or its new
\* tid; of the variable_t and of cd_observer_t) fails an assertion, so that the
\* process aborts before a slot or the published variable is read or written.
HookWithoutSlotAborts ==
    \A tid \in Threads :
        /\ tid_to_pwd_[tid] = NoSlot =>
              /\ ~cd_will_destroy_ok(tid_to_pwd_, tid)
              /\ ~cd_will_unschedule_ok(tid_to_pwd_, tid)
              /\ ~cd_did_schedule_ok(tid_to_pwd_, tid)
              /\ \A other \in Threads \ {tid} :
                    /\ ~cd_will_schedule_ok(tid_to_pwd_, tid, other)
                    /\ ~cd_will_schedule_ok(tid_to_pwd_, other, tid)
        /\ (registered(variable_t) /\ tid_to_vals_[tid] = NoSlot) =>
              /\ ~variable_will_destroy_ok(tid_to_vals_, tid)
              /\ ~variable_will_unschedule_ok(tid_to_vals_, tid)
              /\ ~variable_did_schedule_ok(tid_to_vals_, tid)
              /\ \A other \in Threads \ {tid} :
                    /\ ~variable_will_schedule_ok(tid_to_vals_, tid, other)
                    /\ ~variable_will_schedule_ok(tid_to_vals_, other, tid)

\* C34: no two adjacent elements are both inferred. An append that is stored
\* extends the last element if the string is inferred and that element is too;
\* otherwise (explicit string, explicit last element, or no element) it adds
\* exactly one element, the string with its separation. The elements before
\* stay as they are.
NoAdjacentInferred ==
    /\ [](\A i \in 1..(Len(elements_) - 1) :
             is_explicitly_separated(elements_[i]) \/ is_explicitly_separated(elements_[i + 1]))
    /\ [][(buf_last'.op = "append" /\ Fits(Len(buf_last'.str))) =>
             LET n == Len(elements_)
                 str == buf_last'.str
                 sep == buf_last'.sep
             IN  IF sep = inferred /\ n > 0 /\ ~is_explicitly_separated(elements_[n])
                 THEN /\ Len(elements_') = n
                      /\ elements_'[n] = [contents |-> elements_[n].contents \o str,
                                          separation |-> inferred]
                      /\ SubSeq(elements_', 1, n - 1) = SubSeq(elements_, 1, n - 1)
                 ELSE /\ Len(elements_') = n + 1
                      /\ elements_'[n + 1] = [contents |-> str, separation |-> sep]
                      /\ SubSeq(elements_', 1, n) = elements_]_vars

\* An inferred string was merged into an inferred element that follows an
\* explicitly separated one.
NoAdjacentInferredWitness ==
    /\ buf_last.op = "append" /\ buf_last.sep = inferred /\ buf_last.str # <<>>
    /\ Len(elements_) = 2
    /\ is_explicitly_separated(elements_[1])
    /\ ~is_explicitly_separated(elements_[2])
    /\ Len(elements_[2].contents) > Len(buf_last.str)

\* C35: every thread that calls run() is eventually scheduled (run returns to
\* it, did_schedule delivered), given that every owner comes to release; and
\* no thread waits in run() while the GIL has no owner. Behaviours that fill
\* the waitqueue up to MaxQueue are left out of the first half.
EveryRunnerScheduled ==
    /\ \A t \in Threads :
          (pc[t] = "in_run") ~> (pc[t] = "running" \/ Len(waitqueue) = MaxQueue)
    /\ [](waitqueue # <<>> => owner # NoThread)

\* The map of an observer, and the tids that are spawned and not destroyed.
ObserverSlots(obs) == IF obs = cd_observer_t THEN tid_to_pwd_ ELSE tid_to_vals_
Live == {t \in Threads : pc[t] \in {"ready", "yielding", "in_run", "running"}}

\* The observer holds a slot for each live tid and for no other.
HoldsLiveSlots(obs) == \A t \in Threads : ObserverSlots(obs)[t] # NoSlot <=> t \in Live

FastPathFrame ==
    [][(cs_last'.seq # cs_last.seq /\ cs_last'.path = "fast") =>
          /\ current # NoDir
          /\ now_serving = next_available
          /\ cs_last'.err = NoErr
          /\ UNCHANGED <<next_available, now_serving, current, cwd>>
          /\ lock_count' = lock_count + (IF cs_last'.lock THEN 1 ELSE 0)]_vars

\* A call without out_lock has returned on the fast path while another caller
\* holds a lock on the directory, tickets having been served before.
FastPathFrameWitness ==
    /\ cs_last.path = "fast" /\ ~cs_last.lock
    /\ lock_count > 0
    /\ now_serving = next_available /\ now_serving > 0

\* The callers blocked in lock_cwd's wait loop.
Waiters == {t \in Threads : cs_pc[t] = "waiting"}

\* The caller whose ticket is now_serving has had its turn and still holds the
\* lock it took in it: that ticket is not retired until the lock is released.
TurnHeld ==
    /\ lock_count > 0
    /\ now_serving < next_available
    /\ \A t \in Waiters : ticket[t] # now_serving

CurrentIsCwd == current # NoDir => cwd = current

====
